---- MODULE Spec2Model ----
(***************************************************************************)
(* Model of kontrolplane/publish-directory (src/main.go).                  *)
(*                                                                         *)
(* One publish run is publishDirectory(cfg): resolve the repository, make  *)
(* a temporary directory, clone the branch or create it as an orphan,      *)
(* clean the checkout, copy the folder, stage, check the status, commit    *)
(* and push.  Several runs may be in flight against the same remote.       *)
(*                                                                         *)
(* A directory tree is a function from Paths to the bytes of the file at   *)
(* that path, or NoFile.  Permission bits and empty directories are not    *)
(* represented.  The remote is the branch tip of each URL; the commit      *)
(* objects live in one store, a commit's id being its index in commits.    *)
(***************************************************************************)
EXTENDS Naturals, Sequences, FiniteSets

VARIABLES
    folder0,        \* history: the content of cfg.Folder before any run
    remote0,        \* history: the branch tips before any run
    source,         \* the content of cfg.Folder on disk
    cfgRepository,  \* cfg.Repository (INPUT_REPOSITORY)
    envRepository,  \* os.Getenv("GITHUB_REPOSITORY")
    remote,         \* URL -> id of the commit at the tip of cfg.Branch, 0 if the branch is absent
    commits,        \* the commit objects: id -> [parent, tree]
    pc,             \* run -> position in publishDirectory
    repository,     \* run -> the repository resolved at main.go:66-73, "" before
    tmpExists,      \* run -> the temporary directory is on disk
    worktree,       \* run -> the content of the temporary directory
    acquired,       \* run -> the tip cloned (0 for an orphan branch)
    index,          \* run -> the staged tree
    created,        \* run -> id of the commit created by worktree.Commit, 0 if none
    touched         \* history: the roots in which a file was created or truncated

vars == << folder0, remote0, source, cfgRepository, envRepository, remote, commits, pc, repository,
           tmpExists, worktree, acquired, index, created, touched >>

MaxRuns == 2

Runs == 1..MaxRuns

NoFile == "<nofile>"

Truncated == ""

Bytes == {"hello", "world"}

GitName == ".git"

GitMeta == << ".git", "HEAD" >>

Paths == { << "a.txt" >>, << "sub", "b.txt" >>, GitMeta }

\* filepath.Walk visits the entries of a directory in lexical order
WalkOrder == << GitMeta, << "a.txt" >>, << "sub", "b.txt" >> >>

EmptyTree == [p \in Paths |-> NoFile]

Files(tree) == {p \in Paths : tree[p] # NoFile}

\* the part of a tree git tracks: everything outside the metadata directory
Tracked(tree) == [p \in Paths |-> IF p[1] = GitName THEN NoFile ELSE tree[p]]

\* the folders the runs start from: a.txt, sub/b.txt and the folder's own
\* .git/HEAD, each present or absent
FolderTrees ==
    {t \in [Paths -> Bytes \cup {NoFile}] :
        t[<< "a.txt" >>] # "world" /\ t[<< "sub", "b.txt" >>] # "hello" /\ t[GitMeta] # "world"}

\* the trees a branch tip starts with: a.txt with either content or absent,
\* sub/b.txt present or absent
TrackedTrees ==
    {t \in [Paths -> Bytes \cup {NoFile}] :
        t[<< "sub", "b.txt" >>] # "hello" /\ t[GitMeta] = NoFile}

\* main.go:81
URL(repo) == "https://github.com/" \o repo \o ".git"

Repositories == {"owner/configured", "owner/ambient"}

Terminal == {"NoOp", "Done", "Failed"}

TipTree(tip) == IF tip = 0 THEN EmptyTree ELSE commits[tip].tree

----
\* getCurrentRepository: the ambient value, an error when it is empty
getCurrentRepository(ambient) ==
    IF ambient = "" THEN [ok |-> FALSE, repository |-> ""]
                    ELSE [ok |-> TRUE, repository |-> ambient]

ResolveAmbientFirst(configured, ambient) ==
    IF ambient = "" THEN [ok |-> configured # "", repository |-> configured]
                    ELSE [ok |-> TRUE, repository |-> ambient]

\* publishDirectory, main.go:66-73
ResolveRepository(configured, ambient) ==
    IF configured = "" THEN getCurrentRepository(ambient)
                       ELSE [ok |-> TRUE, repository |-> configured]

\* the deferred os.RemoveAll(temporaryDirectory): the directory is gone on return
LeakTemporaryDirectory(exists) == exists

RemoveTemporaryDirectory(exists) == FALSE

\* cleanWorkingTree with os.Remove in place of os.RemoveAll: a non-empty
\* directory entry is left behind
cleanFilesOnly(tree) ==
    [p \in Paths |-> IF p[1] = GitName \/ Len(p) > 1 THEN tree[p] ELSE NoFile]

\* cleanWorkingTree: every top-level entry but .git is removed, recursively
cleanWorkingTree(tree) ==
    [p \in Paths |-> IF p[1] = GitName THEN tree[p] ELSE NoFile]

\* copyDirectory's walk skips a directory named .git, and what is below it
SkippedByWalk(p) == \E i \in 1..(Len(p) - 1) : p[i] = GitName

\* copyFile: os.Create truncates the destination, io.Copy then reads the source
copyFile(fs, from, to) ==
    LET opened == [fs EXCEPT ![to[1]][to[2]] = Truncated]
    IN  [opened EXCEPT ![to[1]][to[2]] = opened[from[1]][from[2]]]

\* the first n entries of the walk of copyDirectory(source, destination);
\* main.go:231 joins the relative path to source, not to destination
RECURSIVE copyDirectory(_, _, _, _)
copyDirectory(fs, src, destination, n) ==
    IF n = 0 THEN fs
    ELSE LET before == copyDirectory(fs, src, destination, n - 1)
             path == WalkOrder[n]
             targetPath == << src, path >>
         IN  IF before[src][path] = NoFile \/ SkippedByWalk(path)
             THEN before
             ELSE copyFile(before, << src, path >>, targetPath)

\* the roots in which the first n entries of the walk create or truncate a file
RECURSIVE copyTargets(_, _, _, _)
copyTargets(fs, src, destination, n) ==
    IF n = 0 THEN {}
    ELSE LET path == WalkOrder[n]
         IN  copyTargets(fs, src, destination, n - 1) \cup
             (IF fs[src][path] = NoFile \/ SkippedByWalk(path) THEN {} ELSE {src})

\* worktree.AddWithOptions(All): the index becomes the tracked part of the checkout
StageAll(tree) == Tracked(tree)

AlwaysDirty(staged, tip) == FALSE

\* status.IsClean(): the staged tree is the tree of HEAD (empty without a HEAD)
IsClean(staged, tip) == staged = Tracked(TipTree(tip))

ForcePush(tip, commit) == TRUE

\* repo.Push without Force: the remote takes the commit only as a fast-forward
\* of its tip, which for a depth-1 checkout is the commit's parent
PushAccepted(tip, commit) == tip = commits[commit].parent

----
Init ==
    /\ source \in FolderTrees
    /\ folder0 = source
    /\ cfgRepository \in {"", "owner/configured"}
    /\ envRepository \in {"", "owner/ambient"}
    /\ \/ /\ commits = << >>
          /\ remote = [u \in {URL(x) : x \in Repositories} |-> 0]
       \/ /\ \E t \in TrackedTrees : commits = << [parent |-> 0, tree |-> t] >>
          /\ remote = [u \in {URL(x) : x \in Repositories} |-> 1]
    /\ remote0 = remote
    /\ pc = [r \in Runs |-> "Start"]
    /\ repository = [r \in Runs |-> ""]
    /\ tmpExists = [r \in Runs |-> FALSE]
    /\ worktree = [r \in Runs |-> EmptyTree]
    /\ acquired = [r \in Runs |-> 0]
    /\ index = [r \in Runs |-> EmptyTree]
    /\ created = [r \in Runs |-> 0]
    /\ touched = {}

\* a return of publishDirectory: the deferred removal runs when the directory was made
Return(r, outcome) ==
    /\ pc' = [pc EXCEPT ![r] = outcome]
    /\ tmpExists' = [tmpExists EXCEPT ![r] = tmpExists[r] /\ RemoveTemporaryDirectory(tmpExists[r])]
    /\ worktree' = [worktree EXCEPT ![r] =
                        IF tmpExists'[r] THEN worktree[r] ELSE EmptyTree]

\* main.go:66-73
Resolve(r) ==
    /\ pc[r] = "Start"
    /\ LET res == ResolveRepository(cfgRepository, envRepository)
       IN  IF res.ok
           THEN /\ repository' = [repository EXCEPT ![r] = res.repository]
                /\ pc' = [pc EXCEPT ![r] = "RepositoryResolved"]
                /\ UNCHANGED << tmpExists, worktree >>
           ELSE /\ Return(r, "Failed")
                /\ UNCHANGED repository
    /\ UNCHANGED << folder0, remote0, source, cfgRepository, envRepository, remote, commits,
                    acquired, index, created, touched >>

\* main.go:75-79, os.MkdirTemp succeeds
MkdirTemp(r) ==
    /\ pc[r] = "RepositoryResolved"
    /\ pc' = [pc EXCEPT ![r] = "TempCreated"]
    /\ tmpExists' = [tmpExists EXCEPT ![r] = TRUE]
    /\ UNCHANGED << folder0, remote0, source, cfgRepository, envRepository, remote, commits, repository,
                    worktree, acquired, index, created, touched >>

\* main.go:76-78, os.MkdirTemp fails
MkdirTempFails(r) ==
    /\ pc[r] = "RepositoryResolved"
    /\ Return(r, "Failed")
    /\ UNCHANGED << folder0, remote0, source, cfgRepository, envRepository, remote, commits, repository,
                    acquired, index, created, touched >>

\* cloneOrCreateBranch, main.go:154-163: the clone of the branch succeeds
CloneBranch(r) ==
    /\ pc[r] = "TempCreated"
    /\ remote[URL(repository[r])] # 0
    /\ acquired' = [acquired EXCEPT ![r] = remote[URL(repository[r])]]
    /\ worktree' = [worktree EXCEPT ![r] =
                        [TipTree(remote[URL(repository[r])]) EXCEPT ![GitMeta] = "hello"]]
    /\ index' = [index EXCEPT ![r] = Tracked(TipTree(remote[URL(repository[r])]))]
    /\ pc' = [pc EXCEPT ![r] = "CheckoutAcquired"]
    /\ UNCHANGED << folder0, remote0, source, cfgRepository, envRepository, remote, commits, repository,
                    tmpExists, created, touched >>

\* cloneOrCreateBranch, main.go:165-193: the clone fails (the branch is absent, or
\* any other failure) and a fresh repository with an orphan branch is made
CreateOrphanBranch(r) ==
    /\ pc[r] = "TempCreated"
    /\ acquired' = [acquired EXCEPT ![r] = 0]
    /\ worktree' = [worktree EXCEPT ![r] = [EmptyTree EXCEPT ![GitMeta] = "hello"]]
    /\ index' = [index EXCEPT ![r] = EmptyTree]
    /\ pc' = [pc EXCEPT ![r] = "CheckoutAcquired"]
    /\ UNCHANGED << folder0, remote0, source, cfgRepository, envRepository, remote, commits, repository,
                    tmpExists, created, touched >>

\* cloneOrCreateBranch, main.go:168-191: init, checkout or remote registration fails
AcquireFails(r) ==
    /\ pc[r] = "TempCreated"
    /\ Return(r, "Failed")
    /\ UNCHANGED << folder0, remote0, source, cfgRepository, envRepository, remote, commits, repository,
                    acquired, index, created, touched >>

\* main.go:98, cleanWorkingTree succeeds
Clean(r) ==
    /\ pc[r] = "CheckoutAcquired"
    /\ worktree' = [worktree EXCEPT ![r] = cleanWorkingTree(worktree[r])]
    /\ pc' = [pc EXCEPT ![r] = "TreeCleaned"]
    /\ UNCHANGED << folder0, remote0, source, cfgRepository, envRepository, remote, commits, repository,
                    tmpExists, acquired, index, created, touched >>

\* main.go:98-100, cleanWorkingTree returns an error
CleanFails(r) ==
    /\ pc[r] = "CheckoutAcquired"
    /\ Return(r, "Failed")
    /\ UNCHANGED << folder0, remote0, source, cfgRepository, envRepository, remote, commits, repository,
                    acquired, index, created, touched >>

\* main.go:102, copyDirectory walks the whole folder
Copy(r) ==
    /\ pc[r] = "TreeCleaned"
    /\ LET fs == [folder |-> source, checkout |-> worktree[r]]
           after == copyDirectory(fs, "folder", "checkout", Len(WalkOrder))
       IN  /\ source' = after.folder
           /\ worktree' = [worktree EXCEPT ![r] = after.checkout]
           /\ touched' = touched \cup copyTargets(fs, "folder", "checkout", Len(WalkOrder))
    /\ pc' = [pc EXCEPT ![r] = "TreeMirrored"]
    /\ UNCHANGED << folder0, remote0, cfgRepository, envRepository, remote, commits, repository,
                    tmpExists, acquired, index, created >>

\* main.go:102-104, the walk stops with an error after n entries
CopyFails(r) ==
    /\ pc[r] = "TreeCleaned"
    /\ \E n \in 0..(Len(WalkOrder) - 1) :
          LET fs == [folder |-> source, checkout |-> worktree[r]]
              after == copyDirectory(fs, "folder", "checkout", n)
          IN  /\ source' = after.folder
              /\ touched' = touched \cup copyTargets(fs, "folder", "checkout", n)
    /\ Return(r, "Failed")
    /\ UNCHANGED << folder0, remote0, cfgRepository, envRepository, remote, commits, repository,
                    acquired, index, created >>

\* main.go:106, worktree.AddWithOptions succeeds
Stage(r) ==
    /\ pc[r] = "TreeMirrored"
    /\ index' = [index EXCEPT ![r] = StageAll(worktree[r])]
    /\ pc' = [pc EXCEPT ![r] = "Staged"]
    /\ UNCHANGED << folder0, remote0, source, cfgRepository, envRepository, remote, commits, repository,
                    tmpExists, worktree, acquired, created, touched >>

\* main.go:106-108
StageFails(r) ==
    /\ pc[r] = "TreeMirrored"
    /\ Return(r, "Failed")
    /\ UNCHANGED << folder0, remote0, source, cfgRepository, envRepository, remote, commits, repository,
                    acquired, index, created, touched >>

\* main.go:110-118, the status is clean: "No changes to commit", return nil
StatusClean(r) ==
    /\ pc[r] = "Staged"
    /\ IsClean(index[r], acquired[r])
    /\ Return(r, "NoOp")
    /\ UNCHANGED << folder0, remote0, source, cfgRepository, envRepository, remote, commits, repository,
                    acquired, index, created, touched >>

\* main.go:110-118, the status is not clean
StatusDirty(r) ==
    /\ pc[r] = "Staged"
    /\ ~IsClean(index[r], acquired[r])
    /\ pc' = [pc EXCEPT ![r] = "Dirty"]
    /\ UNCHANGED << folder0, remote0, source, cfgRepository, envRepository, remote, commits, repository,
                    tmpExists, worktree, acquired, index, created, touched >>

\* main.go:110-113
StatusFails(r) ==
    /\ pc[r] = "Staged"
    /\ Return(r, "Failed")
    /\ UNCHANGED << folder0, remote0, source, cfgRepository, envRepository, remote, commits, repository,
                    acquired, index, created, touched >>

\* main.go:120-131, worktree.Commit succeeds
Commit(r) ==
    /\ pc[r] = "Dirty"
    /\ commits' = Append(commits, [parent |-> acquired[r], tree |-> index[r]])
    /\ created' = [created EXCEPT ![r] = Len(commits) + 1]
    /\ pc' = [pc EXCEPT ![r] = "Committed"]
    /\ UNCHANGED << folder0, remote0, source, cfgRepository, envRepository, remote, repository,
                    tmpExists, worktree, acquired, index, touched >>

\* main.go:127-129
CommitFails(r) ==
    /\ pc[r] = "Dirty"
    /\ Return(r, "Failed")
    /\ UNCHANGED << folder0, remote0, source, cfgRepository, envRepository, remote, commits, repository,
                    acquired, index, created, touched >>

\* main.go:133-141, the remote takes the push
Push(r) ==
    /\ pc[r] = "Committed"
    /\ PushAccepted(remote[URL(repository[r])], created[r])
    /\ remote' = [remote EXCEPT ![URL(repository[r])] = created[r]]
    /\ Return(r, "Done")
    /\ UNCHANGED << folder0, remote0, source, cfgRepository, envRepository, commits, repository,
                    acquired, index, created, touched >>

\* main.go:137-139, the remote rejects the push as not a fast-forward
PushRejected(r) ==
    /\ pc[r] = "Committed"
    /\ ~PushAccepted(remote[URL(repository[r])], created[r])
    /\ Return(r, "Failed")
    /\ UNCHANGED << folder0, remote0, source, cfgRepository, envRepository, remote, commits, repository,
                    acquired, index, created, touched >>

\* main.go:137-139, the push fails in transport
PushFails(r) ==
    /\ pc[r] = "Committed"
    /\ Return(r, "Failed")
    /\ UNCHANGED << folder0, remote0, source, cfgRepository, envRepository, remote, commits, repository,
                    acquired, index, created, touched >>

Next ==
    \E r \in Runs :
        \/ Resolve(r)
        \/ MkdirTemp(r)
        \/ MkdirTempFails(r)
        \/ CloneBranch(r)
        \/ CreateOrphanBranch(r)
        \/ AcquireFails(r)
        \/ Clean(r)
        \/ CleanFails(r)
        \/ Copy(r)
        \/ CopyFails(r)
        \/ Stage(r)
        \/ StageFails(r)
        \/ StatusClean(r)
        \/ StatusDirty(r)
        \/ StatusFails(r)
        \/ Commit(r)
        \/ CommitFails(r)
        \/ Push(r)
        \/ PushRejected(r)
        \/ PushFails(r)

Spec == Init /\ [][Next]_vars

----
\* Properties of the specification

\* the position of a run in publishDirectory's sequence of steps
Rank(position) ==
    CASE position = "Start" -> 0
      [] position = "RepositoryResolved" -> 1
      [] position = "TempCreated" -> 2
      [] position = "CheckoutAcquired" -> 3
      [] position = "TreeCleaned" -> 4
      [] position = "TreeMirrored" -> 5
      [] position = "Staged" -> 6
      [] position = "Dirty" -> 7
      [] position = "Committed" -> 8
      [] OTHER -> 9

\* no other run has started: the run sees the folder and the remote as they were
Alone(r) == \A q \in Runs \ {r} : pc[q] = "Start"

Succeeded(r) == pc[r] \in {"NoOp", "Done"}

\* C1 (mirror fidelity): after a run that ends in success, having acquired the
\* branch as the remote held it, the tree at the tip of the remote branch holds
\* exactly the files of the source folder, .git excluded, with the same bytes.
MirrorFidelity ==
    \A r \in Runs :
        (Alone(r) /\ Succeeded(r) /\ acquired[r] = remote0[URL(repository[r])]) =>
            Tracked(TipTree(remote[URL(repository[r])])) = Tracked(folder0)

\* C2 (orphan creation): when the branch is absent from the remote and the folder
\* holds a file, a successful run leaves the branch on the remote with one
\* parent-less commit whose tree is the folder's content.
OrphanCreation ==
    \A r \in Runs :
        (/\ Alone(r)
         /\ Succeeded(r)
         /\ remote0[URL(repository[r])] = 0
         /\ Files(Tracked(folder0)) # {}) =>
            /\ remote[URL(repository[r])] # 0
            /\ remote[URL(repository[r])] = created[r]
            /\ Len(commits) = 1
            /\ commits[created[r]].parent = 0
            /\ commits[created[r]].tree = Tracked(folder0)

\* C3 (idempotence): of two successful runs in succession with the same non-empty
\* folder, the branch not yet holding it, the first commits and pushes and the
\* second, which clones what the first pushed, is a no-op that creates no commit.
Idempotence ==
    /\ \A r \in Runs :
          (/\ Alone(r)
           /\ Succeeded(r)
           /\ Files(Tracked(folder0)) # {}
           /\ Tracked(TipTree(remote0[URL(repository[r])])) # Tracked(folder0)) =>
              (pc[r] = "Done" /\ created[r] # 0)
    /\ \A r1 \in Runs : \A r2 \in Runs \ {r1} :
          (/\ pc[r1] = "Done"
           /\ Succeeded(r2)
           /\ acquired[r2] = created[r1]
           /\ \A q \in Runs \ {r1, r2} : pc[q] = "Start") =>
              (pc[r2] = "NoOp" /\ created[r2] = 0 /\ Len(commits) = created[r1])

\* C4 (clean-tree short-circuit): when the tip tree of the branch the run cloned
\* equals the folder's content, the run finds nothing to commit, creates no
\* commit, pushes nothing and leaves the branch as it was.
CleanTreeShortCircuit ==
    \A r \in Runs :
        (/\ Alone(r)
         /\ acquired[r] # 0
         /\ Tracked(TipTree(acquired[r])) = Tracked(folder0)) =>
            /\ pc[r] \notin {"Dirty", "Committed", "Done"}
            /\ created[r] = 0
            /\ remote = remote0

\* C5 (deletion propagation): a file of the cloned tip tree that the folder does
\* not hold is absent from the tree of the commit the run creates; after the
\* sanitizer the checkout holds nothing outside .git.
DeletionPropagation ==
    \A r \in Runs :
        /\ created[r] # 0 =>
              \A p \in Paths :
                  (TipTree(acquired[r])[p] # NoFile /\ folder0[p] = NoFile) =>
                      commits[created[r]].tree[p] = NoFile
        /\ pc[r] = "TreeCleaned" =>
              \A p \in Files(worktree[r]) : p[1] = GitName

DeletionPropagated ==
    \E r \in Runs : \E p \in Paths :
        /\ pc[r] = "Done"
        /\ TipTree(acquired[r])[p] # NoFile
        /\ folder0[p] = NoFile
        /\ TipTree(remote[URL(repository[r])])[p] = NoFile

\* C6 (filesystem footprint): no run creates or truncates a file outside its
\* temporary directory, and the folder's files keep their content.
FilesystemFootprint ==
    /\ touched \subseteq {"checkout"}
    /\ source = folder0

\* C7 (guaranteed cleanup): a run that has ended, however it ended, has no
\* temporary directory left on disk.
GuaranteedCleanup ==
    \A r \in Runs : pc[r] \in Terminal => ~tmpExists[r]

CleanedUpAfterPushFailure ==
    \E r \in Runs : pc[r] = "Failed" /\ created[r] # 0 /\ ~tmpExists[r]

\* C8 (fallback repository resolution): a configured repository is the one used;
\* with none configured the ambient one is used; with neither, every run fails
\* with no temporary directory made and the remote never read or written.
FallbackResolution ==
    LET expected == IF cfgRepository # "" THEN cfgRepository ELSE envRepository
    IN  /\ \A r \in Runs :
              /\ Rank(pc[r]) \in 1..8 => repository[r] = expected /\ expected # ""
              /\ repository[r] \in {"", expected}
              /\ expected = "" =>
                    /\ pc[r] \in {"Start", "Failed"}
                    /\ ~tmpExists[r]
                    /\ acquired[r] = 0
                    /\ created[r] = 0
        /\ \A u \in DOMAIN remote : u # URL(expected) => remote[u] = remote0[u]
        /\ expected = "" => remote = remote0 /\ Len(commits) <= 1

AmbientRepositoryUsed ==
    /\ cfgRepository = ""
    /\ \E r \in Runs :
          /\ pc[r] = "Done"
          /\ repository[r] = envRepository
          /\ remote[URL(envRepository)] = created[r]

\* C9 (step ordering): a run moves through resolve, temporary directory, acquire,
\* clean, mirror, stage, status, commit, push in that order, one step at a time
\* and never backwards; a commit exists only for a non-empty change set; the
\* remote changes only by the push of a run that committed; a run that has ended
\* takes no further step.
StepOrderStep ==
    \A r \in Runs :
        pc'[r] # pc[r] =>
            /\ pc[r] \notin Terminal
            /\ \/ Rank(pc'[r]) = Rank(pc[r]) + 1 /\ pc'[r] \notin Terminal
               \/ pc'[r] = "Failed"
               \/ pc'[r] = "NoOp" /\ pc[r] = "Staged"
               \/ pc'[r] = "Done" /\ pc[r] = "Committed"
            /\ created'[r] # created[r] => pc[r] = "Dirty" /\ pc'[r] = "Committed"
            /\ \A q \in Runs \ {r} : pc'[q] = pc[q]

PushStep ==
    remote' # remote =>
        \E r \in Runs :
            /\ pc[r] = "Committed" /\ pc'[r] = "Done"
            /\ created[r] # 0
            /\ remote' = [remote EXCEPT ![URL(repository[r])] = created[r]]

CommitOnlyForChanges ==
    \A r \in Runs :
        /\ created[r] # 0 => pc[r] \in {"Committed", "Done", "Failed"}
        /\ created[r] # 0 =>
              commits[created[r]].tree # Tracked(TipTree(commits[created[r]].parent))
        /\ pc[r] \in {"Committed", "Done"} => created[r] # 0

StepOrdering ==
    /\ []CommitOnlyForChanges
    /\ [][StepOrderStep /\ PushStep]_vars

AllStepsTaken ==
    \E r \in Runs : pc[r] = "Done" /\ created[r] # 0 /\ remote[URL(repository[r])] = created[r]

\* C10 (concurrent publishers): of two runs that cloned the same tip of the same
\* branch and both committed, at most one push is taken; once one is taken, the
\* other run's push changes nothing on the remote and that run ends Failed; the
\* branch tip is never the commit of the run that failed.
Raced(r1, r2) ==
    /\ r1 # r2
    /\ repository[r1] = repository[r2]
    /\ acquired[r1] # 0
    /\ acquired[r1] = acquired[r2]
    /\ created[r1] # 0
    /\ created[r2] # 0

RaceState ==
    \A r1 \in Runs : \A r2 \in Runs :
        Raced(r1, r2) =>
            /\ ~(pc[r1] = "Done" /\ pc[r2] = "Done")
            /\ pc[r2] = "Failed" => remote[URL(repository[r2])] # created[r2]

RaceStep ==
    \A r1 \in Runs : \A r2 \in Runs :
        (Raced(r1, r2) /\ pc[r1] = "Done" /\ pc[r2] = "Committed" /\ pc'[r2] # "Committed") =>
            /\ pc'[r2] = "Failed"
            /\ remote' = remote

ConcurrentPublishers ==
    /\ []RaceState
    /\ [][RaceStep]_vars

PushLostTheRace ==
    \E r1 \in Runs : \E r2 \in Runs :
        /\ Raced(r1, r2)
        /\ pc[r1] = "Done"
        /\ pc[r2] = "Failed"
        /\ remote[URL(repository[r1])] = created[r1]

====
